---- MODULE Spec2Model ----
(***************************************************************************)
(* Console transcoding adapter of io-extras (src/os/windows/stdio.rs):     *)
(* byte-oriented read/write over a Windows console whose native calls      *)
(* take UTF-16 code units.  Bytes and code units are integers; UTF-8 and   *)
(* UTF-16 are computed arithmetically.                                     *)
(***************************************************************************)
EXTENDS Integers, Sequences, FiniteSets, TLC

VARIABLES
    SURROGATE,          \* static SURROGATE: AtomicU16
    stdHandle,          \* host: GetStdHandle table, stream id -> handle value
    consoles,           \* host: handles on which GetConsoleMode succeeds
    debug_assertions,   \* build: cfg!(debug_assertions)
    wid,                \* write caller: the stream id of its Stdio value
    data,               \* write caller: the bytes it wants written
    off,                \* write caller: offset it resumes at (sum of returned counts)
    screen,             \* code units the console accepted from WriteConsoleW
    wr,                 \* record of the write call, if it was the last call
    input,              \* console input: code units ReadConsoleW has yet to deliver
    pc,                 \* per thread: position inside Stdio::read
    rd,                 \* per thread: locals of the read in progress
    out,                \* per thread: the caller's destination buffer
    lastRead            \* record of the read call that returned last

vars == <<SURROGATE, stdHandle, consoles, debug_assertions, wid, data, off, screen,
          wr, input, pc, rd, out, lastRead>>

hostVars == <<stdHandle, consoles, debug_assertions>>
callerVars == <<wid, data, off, screen>>
writeVars == <<wid, data, off, screen, wr>>
readLocals == <<input, pc, rd, out>>

(***************************************************************************)
(* Program constants                                                       *)
(***************************************************************************)
MAX_BUFFER_SIZE == 8192
CTRL_Z == 26
STD_INPUT_HANDLE == -10
STD_OUTPUT_HANDLE == -11
STD_ERROR_HANDLE == -12
INVALID_HANDLE_VALUE == -1
NULL_HANDLE == 0

StdIds == {STD_INPUT_HANDLE, STD_OUTPUT_HANDLE, STD_ERROR_HANDLE}

(***************************************************************************)
(* Bounds of the model                                                     *)
(***************************************************************************)
MaxChars == 3       \* pieces (characters or invalid bytes) in a write input
MaxUnits == 3       \* code units in the console input stream
MaxBufLen == 6      \* largest destination buffer of a read
CapSlack == 1       \* long write inputs: bytes short of or beyond a limit
MaxSharedChars == 2 \* characters in the console input two threads read

Min(a, b) == IF a < b THEN a ELSE b

Take(s, n) == SubSeq(s, 1, Min(n, Len(s)))
Drop(s, n) == SubSeq(s, n + 1, Len(s))

(***************************************************************************)
(* Results: io::Result<usize>, or a panic of the call                      *)
(***************************************************************************)
Ok(n) == [kind |-> "Ok", n |-> n, err |-> "none"]
Err(e) == [kind |-> "Err", n |-> 0, err |-> e]
Panic(e) == [kind |-> "Panic", n |-> 0, err |-> e]
NoResult == [kind |-> "None", n |-> 0, err |-> "none"]

(***************************************************************************)
(* UTF-8 and UTF-16 (the std routines the adapter calls)                   *)
(***************************************************************************)
IsCont(b) == b >= 128 /\ b <= 191

\* Width of the well-formed UTF-8 sequence starting at b[i], 0 if none.
Utf8WidthAt(b, i) ==
    LET n == Len(b)
        b0 == b[i]
        c(j) == i + j <= n /\ IsCont(b[i + j])
    IN  IF b0 < 128 THEN 1
        ELSE IF b0 >= 194 /\ b0 <= 223 THEN (IF c(1) THEN 2 ELSE 0)
        ELSE IF b0 = 224
            THEN (IF c(1) /\ c(2) /\ b[i + 1] >= 160 THEN 3 ELSE 0)
        ELSE IF b0 = 237
            THEN (IF c(1) /\ c(2) /\ b[i + 1] <= 159 THEN 3 ELSE 0)
        ELSE IF b0 >= 225 /\ b0 <= 239 THEN (IF c(1) /\ c(2) THEN 3 ELSE 0)
        ELSE IF b0 = 240
            THEN (IF c(1) /\ c(2) /\ c(3) /\ b[i + 1] >= 144 THEN 4 ELSE 0)
        ELSE IF b0 = 244
            THEN (IF c(1) /\ c(2) /\ c(3) /\ b[i + 1] <= 143 THEN 4 ELSE 0)
        ELSE IF b0 >= 241 /\ b0 <= 243
            THEN (IF c(1) /\ c(2) /\ c(3) THEN 4 ELSE 0)
        ELSE 0

\* Byte b[i] cannot belong to a well-formed sequence: it starts none, or it
\* is a continuation byte that no sequence starting before it reaches.
Utf8ErrorAt(b, i) ==
    IF IsCont(b[i])
        THEN ~\E j \in (i - 3)..(i - 1) :
                 j >= 1 /\ ~IsCont(b[j]) /\ Utf8WidthAt(b, j) > i - j
    ELSE Utf8WidthAt(b, i) = 0

\* The first such byte of b[lo..hi], hi + 1 if there is none (found by
\* halving the range, so that long inputs do not nest deeply).
RECURSIVE FirstUtf8Error(_, _, _)
FirstUtf8Error(b, lo, hi) ==
    IF lo > hi THEN hi + 1
    ELSE IF lo = hi THEN (IF Utf8ErrorAt(b, lo) THEN lo ELSE lo + 1)
    ELSE LET mid == (lo + hi) \div 2
             l == FirstUtf8Error(b, lo, mid)
         IN  IF l <= mid THEN l ELSE FirstUtf8Error(b, mid + 1, hi)

\* Utf8Error::valid_up_to of str::from_utf8(b); Len(b) when b is valid.
valid_up_to(b) == FirstUtf8Error(b, 1, Len(b)) - 1

IsValidUtf8(b) == valid_up_to(b) = Len(b)

\* The code point of the well-formed sequence of width w at b[i].
Utf8CharAt(b, i, w) ==
    IF w = 1 THEN b[i]
    ELSE IF w = 2 THEN (b[i] - 192) * 64 + (b[i + 1] - 128)
    ELSE IF w = 3
        THEN (b[i] - 224) * 4096 + (b[i + 1] - 128) * 64 + (b[i + 2] - 128)
    ELSE (b[i] - 240) * 262144 + (b[i + 1] - 128) * 4096
             + (b[i + 2] - 128) * 64 + (b[i + 3] - 128)

\* char::encode_utf16
EncodeCharUtf16(c) ==
    IF c < 65536 THEN <<c>>
    ELSE <<55296 + ((c - 65536) \div 1024), 56320 + ((c - 65536) % 1024)>>

\* char::encode_utf8
EncodeCharUtf8(c) ==
    IF c < 128 THEN <<c>>
    ELSE IF c < 2048 THEN <<192 + (c \div 64), 128 + (c % 64)>>
    ELSE IF c < 65536
        THEN <<224 + (c \div 4096), 128 + ((c \div 64) % 64), 128 + (c % 64)>>
    ELSE <<240 + (c \div 262144), 128 + ((c \div 4096) % 64),
           128 + ((c \div 64) % 64), 128 + (c % 64)>>

\* The start of the character of valid UTF-8 b that byte i belongs to.
CharStart(b, i) == CHOOSE j \in (i - 3)..i : j >= 1 /\ ~IsCont(b[j])
                                             /\ \A k \in (j + 1)..i : IsCont(b[k])

\* The code units of the characters b[lo..hi] of valid UTF-8 b (by halving
\* the range at a character start).
RECURSIVE EncodeUtf16In(_, _, _)
EncodeUtf16In(b, lo, hi) ==
    IF lo > hi THEN <<>>
    ELSE LET m == CharStart(b, (lo + hi + 1) \div 2)
         IN  IF m = lo
                 THEN LET w == Utf8WidthAt(b, lo)
                      IN  EncodeCharUtf16(Utf8CharAt(b, lo, w))
                              \o EncodeUtf16In(b, lo + w, hi)
             ELSE EncodeUtf16In(b, lo, m - 1) \o EncodeUtf16In(b, m, hi)

\* str::encode_utf16 of a valid UTF-8 string
encode_utf16(utf8) == EncodeUtf16In(utf8, 1, Len(utf8))

IsHighSurrogate(u) == u >= 55296 /\ u <= 56319      \* 0xD800..=0xDBFF
IsLowSurrogate(u) == u >= 56320 /\ u <= 57343       \* 0xDC00..=0xDFFF
IsSurrogate(u) == u >= 55296 /\ u <= 57343

\* char::decode_utf16: the items it yields, a code point or -1 for Err.
RECURSIVE DecodeUtf16From(_, _)
DecodeUtf16From(u, i) ==
    IF i > Len(u) THEN <<>>
    ELSE IF ~IsSurrogate(u[i]) THEN <<u[i]>> \o DecodeUtf16From(u, i + 1)
    ELSE IF IsLowSurrogate(u[i]) THEN <<-1>> \o DecodeUtf16From(u, i + 1)
    ELSE IF i + 1 > Len(u) \/ ~IsLowSurrogate(u[i + 1])
        THEN <<-1>> \o DecodeUtf16From(u, i + 1)
    ELSE <<65536 + (u[i] - 55296) * 1024 + (u[i + 1] - 56320)>>
             \o DecodeUtf16From(u, i + 2)

decode_utf16(u) == DecodeUtf16From(u, 1)

IsValidUtf16(u) == \A i \in 1..Len(decode_utf16(u)) : decode_utf16(u)[i] # -1

RECURSIVE EncodeUtf8Chars(_)
EncodeUtf8Chars(cs) ==
    IF cs = <<>> THEN <<>>
    ELSE EncodeCharUtf8(Head(cs)) \o EncodeUtf8Chars(Tail(cs))

\* String::from_utf16(u) as UTF-8 bytes, for well-formed u.
Utf16ToString(u) == EncodeUtf8Chars(decode_utf16(u))

\* str::is_char_boundary
IsCharBoundary(utf8, n) ==
    n = 0 \/ n = Len(utf8) \/ (n < Len(utf8) /\ ~IsCont(utf8[n + 1]))

(***************************************************************************)
(* Handle resolution and classification                                    *)
(***************************************************************************)
\* get_handle were the handle of a stream looked up once, at startup.
get_handle_cached(tbl, handle_id) ==
    LET handle == IF handle_id = STD_INPUT_HANDLE THEN 1
                  ELSE IF handle_id = STD_OUTPUT_HANDLE THEN 2 ELSE 3
    IN  [ok |-> TRUE, handle |-> handle, err |-> "none"]

\* get_handle: GetStdHandle(handle_id), refused when invalid or null.
get_handle(tbl, handle_id) ==
    LET handle == tbl[handle_id]
    IN  IF handle = INVALID_HANDLE_VALUE
            THEN [ok |-> FALSE, handle |-> handle, err |-> "last_os_error"]
        ELSE IF handle = NULL_HANDLE
            THEN [ok |-> FALSE, handle |-> handle, err |-> "ERROR_INVALID_HANDLE"]
        ELSE [ok |-> TRUE, handle |-> handle, err |-> "none"]

\* is_console: GetConsoleMode(handle, &mut mode) != 0
is_console(cons, handle) == handle \in cons

(***************************************************************************)
(* The native primitives.  What the platform answers to a call is an       *)
(* input of the model: -1 for failure, else the count it reports.          *)
(***************************************************************************)
NativeFailed == -1

NativeCall(fn, handle, arg, res) ==
    [fn |-> fn, handle |-> handle, arg |-> arg, res |-> res]

\* The platform never reports more than it was given: answer r to a call
\* given arg is failure, or a count of at most Len(arg).
Reported(r, arg) == IF r = NativeFailed THEN NativeFailed ELSE Min(r, Len(arg))

\* write_u16s: one WriteConsoleW call
write_u16s_swallows_failure(handle, units, r) ==
    LET res == Reported(r, units)
    IN  [call |-> NativeCall("WriteConsoleW", handle, units, res),
         ret |-> IF res = NativeFailed THEN Ok(0) ELSE Ok(res)]
write_u16s(handle, units, r) ==
    LET res == Reported(r, units)
    IN  [call |-> NativeCall("WriteConsoleW", handle, units, res),
         ret |-> IF res = NativeFailed THEN Err("last_os_error") ELSE Ok(res)]

\* RawWriteable::write: one WriteFile call on the caller's bytes
raw_write_capped(handle, bytes, r) ==
    LET some == SubSeq(bytes, 1, Min(Len(bytes), MAX_BUFFER_SIZE))
        res == Reported(r, some)
    IN  [call |-> NativeCall("WriteFile", handle, some, res),
         ret |-> IF res = NativeFailed THEN Err("last_os_error") ELSE Ok(res)]
raw_write(handle, bytes, r) ==
    LET res == Reported(r, bytes)
    IN  [call |-> NativeCall("WriteFile", handle, bytes, res),
         ret |-> IF res = NativeFailed THEN Err("last_os_error") ELSE Ok(res)]

(***************************************************************************)
(* write (stdio.rs 106-170)                                                *)
(***************************************************************************)
\* The range test of lines 151 and 163: 0xDCEE..=0xDFFF
InLowSurrogateRange(ch) == ch >= 56558 /\ ch <= 57343

\* The match of lines 160-165
UnitCost(ch) ==
    IF ch >= 0 /\ ch <= 127 THEN 1
    ELSE IF ch >= 128 /\ ch <= 2047 THEN 2
    ELSE IF InLowSurrogateRange(ch) THEN 1
    ELSE 3

RECURSIVE CountBytes(_)
CountBytes(units) ==
    IF units = <<>> THEN 0 ELSE UnitCost(Head(units)) + CountBytes(Tail(units))

\* debug_assert!(String::from_utf16(&utf16[..written]).unwrap() == utf8[..count])
\* "passed", or the panic it ends in.
DebugAssert(utf16, written, utf8, count) ==
    IF ~IsValidUtf16(Take(utf16, written)) THEN "unwrap on FromUtf16Error"
    ELSE IF count > Len(utf8) \/ ~IsCharBoundary(utf8, count)
        THEN "str slice index"
    ELSE IF Utf16ToString(Take(utf16, written)) # Take(utf8, count)
        THEN "assertion failed"
    ELSE "passed"

\* Lines 140-169: the byte count after the primary call reported `written`.
write_count(handle, dbg, utf8, utf16, written0, res2) ==
    IF written0 = Len(utf16) THEN [ret |-> Ok(Len(utf8)), calls |-> <<>>]
    ELSE
        LET first_char_remaining == utf16[written0 + 1]
            follow == InLowSurrogateRange(first_char_remaining)
            second == write_u16s(handle, <<first_char_remaining>>, res2)
            written == IF follow THEN written0 + 1 ELSE written0
            count == CountBytes(Take(utf16, written))
            assert == IF dbg THEN DebugAssert(utf16, written, utf8, count)
                      ELSE "passed"
        IN  [ret |-> IF assert = "passed" THEN Ok(count) ELSE Panic(assert),
             calls |-> IF follow THEN <<second.call>> ELSE <<>>]

\* Line 119: cmp::min(data.len(), MAX_BUFFER_SIZE / 2)
write_len_of_whole_buffer(bytes) == Min(Len(bytes), MAX_BUFFER_SIZE)
write_len(bytes) == Min(Len(bytes), MAX_BUFFER_SIZE \div 2)

\* Lines 130-136: the units zipped into [0_u16; MAX_BUFFER_SIZE / 2]
fill_utf16_quarter(units) == Take(units, MAX_BUFFER_SIZE \div 4)
fill_utf16(units) == Take(units, MAX_BUFFER_SIZE \div 2)

\* Lines 112-169: the console branch.
write_console(handle, dbg, bytes, nat) ==
    LET len == write_len(bytes)
        considered == Take(bytes, len)
        k == valid_up_to(considered)
    IN  IF k < len /\ k = 0
            THEN [ret |-> Err("InvalidData"), calls |-> <<>>]
        ELSE
            LET utf8 == Take(considered, k)
                utf16 == fill_utf16(encode_utf16(utf8))
                first == write_u16s(handle, utf16, nat.first)
            IN  IF first.ret.kind = "Err"
                    THEN [ret |-> first.ret, calls |-> <<first.call>>]
                ELSE
                    LET rest == write_count(handle, dbg, utf8, utf16,
                                            first.ret.n, nat.second)
                    IN  [ret |-> rest.ret,
                         calls |-> <<first.call>> \o rest.calls]

\* write(handle_id, data)
write(tbl, cons, dbg, handle_id, bytes, nat) ==
    LET h == get_handle(tbl, handle_id)
    IN  IF ~h.ok THEN [ret |-> Err(h.err), calls |-> <<>>]
        ELSE IF ~is_console(cons, h.handle)
            THEN LET raw == raw_write(h.handle, bytes, nat.first)
                 IN  [ret |-> raw.ret, calls |-> <<raw.call>>]
        ELSE write_console(h.handle, dbg, bytes, nat)

\* The units the console took in the calls of one write.
RECURSIVE AcceptedUnits(_)
AcceptedUnits(calls) ==
    IF calls = <<>> THEN <<>>
    ELSE LET c == Head(calls)
         IN  (IF c.fn = "WriteConsoleW" /\ c.res > 0 THEN Take(c.arg, c.res)
              ELSE <<>>) \o AcceptedUnits(Tail(calls))

(***************************************************************************)
(* Inputs                                                                  *)
(***************************************************************************)
\* Characters of 1, 2, 3 and 4 UTF-8 bytes: A, e-acute, euro sign, U+10000
\* (D800 DC00) and U+1F600 (D83D DE00); and a byte that starts no character.
WriteChars == {65, 233, 8364, 65536, 128512}
InvalidBytes == {255}
Pieces == {EncodeCharUtf8(c) : c \in WriteChars} \cup {<<b>> : b \in InvalidBytes}

RECURSIVE Concats(_, _)
Concats(P, n) ==
    IF n = 0 THEN {<<>>}
    ELSE LET S == Concats(P, n - 1)
         IN  S \cup {s \o p : s \in S, p \in P}

WriteInputs == Concats(Pieces, MaxChars)

\* The host's standard handles: two consoles (1, 2) and a pipe (3), or a
\* process whose input is a pipe and whose output handles are missing.
StdHandleTables ==
    { [id \in StdIds |-> IF id = STD_INPUT_HANDLE THEN 1
                         ELSE IF id = STD_OUTPUT_HANDLE THEN 2 ELSE 3],
      [id \in StdIds |-> IF id = STD_INPUT_HANDLE THEN 3
                         ELSE IF id = STD_OUTPUT_HANDLE THEN NULL_HANDLE
                         ELSE INVALID_HANDLE_VALUE] }
ConsoleHandles == {1, 2}

Threads == {1, 2}

NoWrite == [id |-> 0, console |-> FALSE, arg |-> <<>>, ret |-> NoResult,
            calls |-> <<>>]
NoRead == [state |-> "none", t |-> 0, id |-> 0, console |-> FALSE, len |-> 0,
           taken |-> 0, units |-> <<>>, buf |-> <<>>, ret |-> NoResult,
           calls |-> <<>>, bytes |-> <<>>]
NoLocals == [id |-> 0, handle |-> 0, len |-> 0, taken |-> 0, start |-> 0,
             amount |-> 0, utf16_buf |-> <<>>, call |-> <<>>]

\* The record of a returned read: its thread, stream id, branch, destination
\* length, the unit taken from the slot, the units the console delivered
\* (sentinel trimmed), the units decoded, the result, the native calls made
\* and the bytes reported to the caller.
ReadRecord(t, id, console, len, taken, units, buf, ret, calls, dest) ==
    [state |-> "returned", t |-> t, id |-> id, console |-> console,
     len |-> len, taken |-> taken, units |-> units, buf |-> buf, ret |-> ret,
     calls |-> calls,
     bytes |-> IF ret.kind = "Ok" THEN Take(dest, ret.n) ELSE <<>>]

\* What is remembered of the last returned read once the next one is under
\* way: for a console read that reached ReadConsoleW, the unit it took, the
\* units it was delivered, its result and the bytes it reported.
Superseded(r) ==
    IF r.state = "superseded" THEN r
    ELSE IF r.console /\ r.calls # <<>>
    THEN [NoRead EXCEPT !.state = "superseded", !.console = TRUE,
                        !.taken = r.taken, !.units = r.units, !.ret = r.ret,
                        !.bytes = r.bytes]
    ELSE NoRead

InitHost ==
    /\ stdHandle \in StdHandleTables
    /\ consoles = ConsoleHandles
    /\ debug_assertions \in BOOLEAN

InitIdle ==
    /\ SURROGATE = 0
    /\ off = 0
    /\ screen = <<>>
    /\ wr = NoWrite
    /\ pc = [t \in Threads |-> "idle"]
    /\ rd = [t \in Threads |-> NoLocals]
    /\ out = [t \in Threads |-> <<>>]
    /\ lastRead = NoRead

\* The call on stream id takes the console branch.
ResolvesToConsole(id) ==
    /\ get_handle(stdHandle, id).ok
    /\ is_console(consoles, get_handle(stdHandle, id).handle)

\* No call panicked: the caller is still running.
Running == wr.ret.kind # "Panic" /\ lastRead.ret.kind # "Panic"

(***************************************************************************)
(* The caller of write (thread 1, between its reads): it calls write on    *)
(* data[off..] and resumes at the returned count.                          *)
(***************************************************************************)
WriteCall(r1, r2) ==
    /\ Running
    /\ pc[1] = "idle"
    /\ off <= Len(data)
    /\ LET arg == Drop(data, off)
           w == write(stdHandle, consoles, debug_assertions, wid, arg,
                      [first |-> r1, second |-> r2])
       IN  /\ wr' = [id |-> wid, console |-> ResolvesToConsole(wid),
                     arg |-> arg, ret |-> w.ret, calls |-> w.calls]
           /\ off' = IF w.ret.kind = "Ok" THEN off + w.ret.n ELSE off
           /\ screen' = screen \o AcceptedUnits(w.calls)
    /\ lastRead' = Superseded(lastRead)
    /\ UNCHANGED <<SURROGATE, hostVars, wid, data, readLocals>>

\* The native calls answer anything: failure or any count.
Write ==
    \E r1 \in NativeFailed..Len(Drop(data, off)), r2 \in NativeFailed..1 :
        WriteCall(r1, r2)

InitWrite ==
    /\ InitHost
    /\ InitIdle
    /\ wid \in StdIds
    /\ data \in WriteInputs
    /\ input = <<>>

NextWrite == Write

SpecWrite == InitWrite /\ [][NextWrite]_vars

(***************************************************************************)
(* read (stdio.rs 195-319)                                                 *)
(***************************************************************************)
\* Line 202: buf.is_empty()
is_empty_never(len) == FALSE
is_empty(len) == len = 0

\* Line 205: the destination cannot hold one arbitrary character.
buffer_too_small_below_3(len) == len < 3
buffer_too_small(len) == len < 4

\* Line 217: cmp::min(buf.len() / 3, utf16_buf.len())
read_amount_by_half(len) == Min(len \div 2, MAX_BUFFER_SIZE \div 2)
read_amount(len) == Min(len \div 3, MAX_BUFFER_SIZE \div 2)

\* Line 236: what SURROGATE.swap(0, SeqCst) leaves in the slot.
swap_leaves_as_load(s) == s
swap_leaves(s) == 0

\* Lines 237-246: start and amount once s was taken from the slot.
fixup_start(s) == IF s # 0 THEN 1 ELSE 0
fixup_amount_unraised(s, amount) == amount
fixup_amount(s, amount) == IF s # 0 /\ amount = 1 THEN 2 ELSE amount

\* Line 293: the count read_u16s reports for the units ReadConsoleW placed.
read_u16s_amount_trims_any(units) ==
    IF Len(units) > 0 THEN Len(units) - 1 ELSE Len(units)
read_u16s_amount(units) ==
    IF Len(units) > 0 /\ units[Len(units)] = CTRL_Z THEN Len(units) - 1
    ELSE Len(units)

\* Line 251: (0xD800..=0xDBFF).contains(&last_char)
keeps_any_surrogate(last_char) == last_char >= 55296 /\ last_char <= 57343
keeps_for_next_read(last_char) == last_char >= 55296 /\ last_char <= 56319

\* Lines 249-256: the value stored to the slot (0: no store) and the amount
\* returned, for the assembled units buf[..amount].
fixup_store_forgotten(buf) == 0
fixup_store_after_new_unit(buf) ==
    IF Len(buf) > 1 /\ keeps_for_next_read(buf[Len(buf)]) THEN buf[Len(buf)]
    ELSE 0
fixup_store(buf) ==
    IF Len(buf) > 0 /\ keeps_for_next_read(buf[Len(buf)]) THEN buf[Len(buf)]
    ELSE 0
fixup_return_whole(buf) == Len(buf)
fixup_return(buf) ==
    IF Len(buf) > 0 /\ keeps_for_next_read(buf[Len(buf)]) THEN Len(buf) - 1
    ELSE Len(buf)

\* chr.encode_utf8(&mut utf8[written..]): the destination with the bytes e
\* placed at offset written.
Place(utf8, written, e) ==
    [i \in 1..Len(utf8) |->
        IF i > written /\ i <= written + Len(e) THEN e[i - written] ELSE utf8[i]]

\* utf16_to_utf8 (300-319): the loop over decode_utf16's items from item i.
RECURSIVE Utf16ToUtf8From(_, _, _, _)
Utf16ToUtf8From(items, i, written, utf8) ==
    IF i > Len(items) THEN [ret |-> Ok(written), utf8 |-> utf8]
    ELSE IF items[i] = -1 THEN [ret |-> Err("InvalidData"), utf8 |-> utf8]
    ELSE LET e == EncodeCharUtf8(items[i])
         IN  IF written + Len(e) > Len(utf8)
                 THEN [ret |-> Panic("encode_utf8: buffer too small"),
                       utf8 |-> utf8]
             ELSE Utf16ToUtf8From(items, i + 1, written + Len(e),
                                  Place(utf8, written, e))

utf16_to_utf8_lossy(utf16, utf8) ==
    Utf16ToUtf8From(SelectSeq(decode_utf16(utf16), LAMBDA c : c # -1), 1, 0, utf8)
utf16_to_utf8(utf16, utf8) == Utf16ToUtf8From(decode_utf16(utf16), 1, 0, utf8)

\* Code units the console delivers: A, Ctrl-Z, the euro sign, the high
\* surrogate D83D and the low surrogate DE00.
ReadUnits == {65, CTRL_Z, 8364, 55357, 56832}
ReadInputs == Concats({<<u>> : u \in ReadUnits}, MaxUnits)

\* The caller's destination before the call, and what a pipe delivers.
FreshBuffer(len) == [i \in 1..len |-> 0]
PipeBytes(len) == [i \in 1..len |-> 256 - i]

\* A read call of thread t returns: rec is the record of the call.
ReadReturns(t, rec) ==
    /\ pc' = [pc EXCEPT ![t] = "idle"]
    /\ rd' = [rd EXCEPT ![t] = NoLocals]
    /\ lastRead' = rec

\* The answers of ReadFile the model considers: failure, end of file, a
\* full buffer.
PipeAnswers(len) == {NativeFailed, 0, len}

\* Stdio::read up to and including the swap of line 236 (or to its return,
\* on the paths that return before it).
ReadBegin(t, id, len) ==
    /\ Running
    /\ pc[t] = "idle"
    /\ LET h == get_handle(stdHandle, id)
           fresh == FreshBuffer(len)
       IN  IF ~h.ok THEN
               /\ ReadReturns(t, ReadRecord(t, id, FALSE, len, 0, <<>>, <<>>,
                                            Err(h.err), <<>>, fresh))
               /\ out' = [out EXCEPT ![t] = fresh]
               /\ UNCHANGED SURROGATE
           ELSE IF ~is_console(consoles, h.handle) THEN
               \E r \in PipeAnswers(len) :
                 LET call == NativeCall("ReadFile", h.handle, fresh, r)
                     dest == IF r = NativeFailed THEN fresh
                             ELSE Place(fresh, 0, Take(PipeBytes(len), r))
                 IN  /\ ReadReturns(t, ReadRecord(t, id, FALSE, len, 0, <<>>,
                            <<>>,
                            IF r = NativeFailed THEN Err("last_os_error")
                            ELSE Ok(r), <<call>>, dest))
                     /\ out' = [out EXCEPT ![t] = dest]
                     /\ UNCHANGED SURROGATE
           ELSE IF is_empty(len) THEN
               /\ ReadReturns(t, ReadRecord(t, id, TRUE, len, 0, <<>>, <<>>,
                                            Ok(0), <<>>, fresh))
               /\ out' = [out EXCEPT ![t] = fresh]
               /\ UNCHANGED SURROGATE
           ELSE IF buffer_too_small(len) THEN
               /\ ReadReturns(t, ReadRecord(t, id, TRUE, len, 0, <<>>, <<>>,
                                            Err("InvalidInput"), <<>>, fresh))
               /\ out' = [out EXCEPT ![t] = fresh]
               /\ UNCHANGED SURROGATE
           ELSE
               LET s == SURROGATE
               IN  /\ SURROGATE' = swap_leaves(s)
                   /\ rd' = [rd EXCEPT ![t] =
                          [id |-> id, handle |-> h.handle, len |-> len,
                           taken |-> s, start |-> fixup_start(s),
                           amount |-> fixup_amount(s, read_amount(len)),
                           utf16_buf |-> IF s # 0 THEN <<s>> ELSE <<>>,
                           call |-> <<>>]]
                   /\ pc' = [pc EXCEPT ![t] = "native"]
                   /\ out' = [out EXCEPT ![t] = fresh]
                   /\ lastRead' = Superseded(lastRead)
    /\ wr' = NoWrite
    /\ UNCHANGED <<hostVars, callerVars, input>>

\* Line 247: read_u16s, one ReadConsoleW call for buf[start..amount].  The
\* console delivers the next k units of its input, or the call fails.
ReadNative(t) ==
    /\ pc[t] = "native"
    /\ LET l == rd[t]
           want == l.amount - l.start
       IN  \/ /\ ReadReturns(t, ReadRecord(t, l.id, TRUE, l.len, l.taken, <<>>,
                     l.utf16_buf, Err("last_os_error"),
                     <<NativeCall("ReadConsoleW", l.handle,
                                  FreshBuffer(want), NativeFailed)>>, out[t]))
              /\ UNCHANGED input
           \/ \E k \in 0..Min(want, Len(input)) :
                LET units == Take(input, k)
                    got == Take(units, read_u16s_amount(units))
                IN  /\ input' = Drop(input, k)
                    /\ rd' = [rd EXCEPT ![t] =
                           [l EXCEPT !.utf16_buf = l.utf16_buf \o got,
                                     !.call = <<NativeCall("ReadConsoleW",
                                         l.handle, FreshBuffer(want), k)>>]]
                    /\ pc' = [pc EXCEPT ![t] = "fixup"]
                    /\ UNCHANGED lastRead
    /\ UNCHANGED <<SURROGATE, hostVars, writeVars, out>>

\* Lines 249-257 and 220: the store of a trailing high surrogate, then the
\* decoding of the rest into the destination.
ReadFinish(t) ==
    /\ pc[t] = "fixup"
    /\ LET l == rd[t]
           keep == fixup_store(l.utf16_buf)
           read == fixup_return(l.utf16_buf)
           dec == utf16_to_utf8(Take(l.utf16_buf, read), out[t])
       IN  /\ SURROGATE' = IF keep # 0 THEN keep ELSE SURROGATE
           /\ out' = [out EXCEPT ![t] = dec.utf8]
           /\ ReadReturns(t, ReadRecord(t, l.id, TRUE, l.len, l.taken,
                  Drop(l.utf16_buf, l.start), Take(l.utf16_buf, read),
                  dec.ret, l.call, dec.utf8))
    /\ UNCHANGED <<hostVars, writeVars, input>>

Read(t) ==
    \/ \E id \in StdIds, len \in 0..MaxBufLen : ReadBegin(t, id, len)
    \/ ReadNative(t)
    \/ ReadFinish(t)

\* The read path has no debug assertion and the one of write passes on the
\* text written here, so one build stands for both.
InitRead ==
    /\ stdHandle \in StdHandleTables
    /\ consoles = ConsoleHandles
    /\ debug_assertions = FALSE
    /\ InitIdle
    /\ wid = STD_OUTPUT_HANDLE
    /\ data = <<65>>
    /\ input \in ReadInputs

\* Thread 1 reads.
NextRead == Read(1)

SpecRead == InitRead /\ [][NextRead]_vars

\* Thread 1 reads and writes.
NextReadWrite ==
    \/ Read(1)
    \/ Write

SpecReadWrite == InitRead /\ [][NextReadWrite]_vars

\* Thread 1 reads and writes text with an astral character, on either build.
AstralData == {EncodeCharUtf8(128512), <<65>> \o EncodeCharUtf8(128512)}
AstralInputs == {<<65>>, <<55357, 65>>}

InitAstral ==
    /\ InitHost
    /\ InitIdle
    /\ wid \in StdIds
    /\ data \in AstralData
    /\ input \in AstralInputs

SpecAstral == InitAstral /\ [][NextReadWrite]_vars

\* Long write inputs: n copies of a piece.
Repeat(piece, n) ==
    [i \in 1..(n * Len(piece)) |-> piece[((i - 1) % Len(piece)) + 1]]

\* ASCII text of about MAX_BUFFER_SIZE / 2 and about MAX_BUFFER_SIZE bytes;
\* text of MAX_BUFFER_SIZE / 2 - 1 ASCII bytes followed by a 2-byte character;
\* and astral text of MAX_BUFFER_SIZE / 2 bytes.
LongInputs ==
    {Repeat(<<65>>, (MAX_BUFFER_SIZE \div 2) + d) : d \in (0 - CapSlack)..CapSlack}
    \cup {Repeat(<<65>>, MAX_BUFFER_SIZE + d) : d \in (0 - CapSlack)..CapSlack}
    \cup {Repeat(<<65>>, (MAX_BUFFER_SIZE \div 2) - 1) \o EncodeCharUtf8(233)}
    \cup {Repeat(EncodeCharUtf8(128512), MAX_BUFFER_SIZE \div 8)}

\* The console takes all it is given, or the call fails.
WriteWhole ==
    \E r1 \in {NativeFailed, Len(Drop(data, off))} : WriteCall(r1, NativeFailed)

InitLong ==
    /\ InitHost
    /\ InitIdle
    /\ wid \in StdIds
    /\ data \in LongInputs
    /\ input = <<>>

NextLong == WriteWhole

SpecLong == InitLong /\ [][NextLong]_vars

\* Writes and reads on redirected streams: short invalid UTF-8, a 2-byte
\* character, and invalid bytes beyond MAX_BUFFER_SIZE.
RedirectedData ==
    {<<255, 65>>, EncodeCharUtf8(233), Repeat(<<255>>, MAX_BUFFER_SIZE + CapSlack)}
RedirectedInputs == {<<55357>>}

\* The primary native call fails, takes half of what it is given, or all.
WriteSome ==
    \E r1 \in {NativeFailed, Len(Drop(data, off)) \div 2, Len(Drop(data, off))} :
        WriteCall(r1, NativeFailed)

\* The redirected path has no debug assertion: one build stands for both.
InitRedirected ==
    /\ stdHandle \in StdHandleTables
    /\ consoles = ConsoleHandles
    /\ debug_assertions = FALSE
    /\ InitIdle
    /\ wid \in StdIds
    /\ data \in RedirectedData
    /\ input \in RedirectedInputs

NextRedirected ==
    \/ Read(1)
    \/ WriteSome

SpecRedirected == InitRedirected /\ [][NextRedirected]_vars

\* The hosting process reassigns a standard handle (SetStdHandle) or changes
\* which handles are consoles, at any time.
HostTables ==
    StdHandleTables \cup
    { [id \in StdIds |-> IF id = STD_INPUT_HANDLE THEN 3
                         ELSE IF id = STD_OUTPUT_HANDLE THEN 3 ELSE 1] }
HostConsoles == {ConsoleHandles, {1}}

SetStdHandle ==
    /\ \E tbl \in HostTables : tbl # stdHandle /\ stdHandle' = tbl
    /\ UNCHANGED <<SURROGATE, consoles, debug_assertions, writeVars, readLocals,
                   lastRead>>

SetConsoles ==
    /\ \E c \in HostConsoles : c # consoles /\ consoles' = c
    /\ UNCHANGED <<SURROGATE, stdHandle, debug_assertions, writeVars, readLocals,
                   lastRead>>

\* The process starts with consoles on its input and output.
InitHostChanges ==
    /\ stdHandle = [id \in StdIds |-> IF id = STD_INPUT_HANDLE THEN 1
                                      ELSE IF id = STD_OUTPUT_HANDLE THEN 2 ELSE 3]
    /\ consoles = ConsoleHandles
    /\ debug_assertions = FALSE
    /\ InitIdle
    /\ wid = STD_OUTPUT_HANDLE
    /\ data = <<65>>
    /\ input \in {<<65>>, <<55357, 65>>}

NextHostChanges ==
    \/ Read(1)
    \/ Write
    \/ SetStdHandle
    \/ SetConsoles

SpecHostChanges == InitHostChanges /\ [][NextHostChanges]_vars

\* A console that echoes: the units WriteConsoleW accepted become the units
\* ReadConsoleW delivers.
Loopback ==
    /\ screen # <<>>
    /\ input' = input \o screen
    /\ screen' = <<>>
    /\ UNCHANGED <<SURROGATE, hostVars, wid, data, off, wr, pc, rd, out, lastRead>>

\* ASCII text: a letter, Ctrl-Z and DEL.
AsciiBytes == {65, CTRL_Z, 127}
AsciiInputs == Concats({<<b>> : b \in AsciiBytes}, MaxChars)

InitLoopback ==
    /\ stdHandle = [id \in StdIds |-> IF id = STD_INPUT_HANDLE THEN 1
                                      ELSE IF id = STD_OUTPUT_HANDLE THEN 2 ELSE 3]
    /\ consoles = ConsoleHandles
    /\ debug_assertions \in BOOLEAN
    /\ InitIdle
    /\ wid = STD_OUTPUT_HANDLE
    /\ data \in AsciiInputs
    /\ input = <<>>

NextLoopback ==
    \/ WriteWhole
    \/ Loopback
    \/ Read(1)

SpecLoopback == InitLoopback /\ [][NextLoopback]_vars

\* Two threads read the same console stream, with no lock around a read.
ReadStdin(t) ==
    \/ \E len \in 0..MaxBufLen : ReadBegin(t, STD_INPUT_HANDLE, len)
    \/ ReadNative(t)
    \/ ReadFinish(t)

\* Well-formed console input: A, U+1F600 (D83D DE00) and U+1F900 (D83E
\* DD00), each astral character at most once.
SharedChars == {65, 128512, 129280}
SharedInputs ==
    {u \in Concats({EncodeCharUtf16(c) : c \in SharedChars}, MaxSharedChars) :
        \A i, j \in 1..Len(u) : (i # j /\ u[i] = u[j]) => u[i] = 65}

InitConcurrent ==
    /\ stdHandle = [id \in StdIds |-> IF id = STD_INPUT_HANDLE THEN 1
                                      ELSE IF id = STD_OUTPUT_HANDLE THEN 2 ELSE 3]
    /\ consoles = ConsoleHandles
    /\ debug_assertions = FALSE
    /\ InitIdle
    /\ wid = STD_OUTPUT_HANDLE
    /\ data = <<65>>
    /\ input \in SharedInputs

NextConcurrent ==
    \/ ReadStdin(1)
    \/ ReadStdin(2)

SpecConcurrent == InitConcurrent /\ [][NextConcurrent]_vars

\* Thread 1 reads the standard input and thread 2 reads any stream, while the
\* hosting process reassigns the standard handles.  The input is A followed
\* by one astral character.
SlotInputs == {<<65, 55357, 56832>>}

InitSharedSlot ==
    /\ stdHandle = [id \in StdIds |-> IF id = STD_INPUT_HANDLE THEN 1
                                      ELSE IF id = STD_OUTPUT_HANDLE THEN 2 ELSE 3]
    /\ consoles = ConsoleHandles
    /\ debug_assertions = FALSE
    /\ InitIdle
    /\ wid = STD_OUTPUT_HANDLE
    /\ data = <<65>>
    /\ input \in SlotInputs

NextSharedSlot ==
    \/ ReadStdin(1)
    \/ Read(2)
    \/ SetStdHandle

SpecSharedSlot == InitSharedSlot /\ [][NextSharedSlot]_vars

\* Reads of the standard input into destinations of 4 to MaxBufLen bytes and
\* of about three times the length of the UTF-16 buffer.
LongLens ==
    {3 * (MAX_BUFFER_SIZE \div 2) + d : d \in {0 - CapSlack, 0, 3 * CapSlack}}

\* Console input for them: 3-byte characters, astral characters whole and
\* cut, a sentinel in the middle, and unpaired surrogates.
LongReadInputs ==
    {<<8364, 8364, 8364>>, <<55357, 56832, 55357, 56832>>,
     <<8364, 55357, 56832>>, <<65, CTRL_Z, 8364>>, <<55357, 8364>>,
     <<56832, 65>>}

ReadLong(t) ==
    \/ \E len \in (4..MaxBufLen) \cup LongLens :
            ReadBegin(t, STD_INPUT_HANDLE, len)
    \/ ReadNative(t)
    \/ ReadFinish(t)

InitLongRead ==
    /\ stdHandle = [id \in StdIds |-> IF id = STD_INPUT_HANDLE THEN 1
                                      ELSE IF id = STD_OUTPUT_HANDLE THEN 2 ELSE 3]
    /\ consoles = ConsoleHandles
    /\ debug_assertions = FALSE
    /\ InitIdle
    /\ wid = STD_OUTPUT_HANDLE
    /\ data = <<65>>
    /\ input \in LongReadInputs

NextLongRead == ReadLong(1)

SpecLongRead == InitLongRead /\ [][NextLongRead]_vars

\* The console delivers the UTF-16 encoding of a text, in chunks: the text
\* is made of A, Ctrl-Z, the euro sign and U+1F600.
StreamChars == {65, CTRL_Z, 8364, 128512}
StreamTexts == Concats({EncodeCharUtf8(c) : c \in StreamChars}, MaxChars)

InitStream ==
    /\ stdHandle = [id \in StdIds |-> IF id = STD_INPUT_HANDLE THEN 1
                                      ELSE IF id = STD_OUTPUT_HANDLE THEN 2 ELSE 3]
    /\ consoles = ConsoleHandles
    /\ debug_assertions = FALSE
    /\ InitIdle
    /\ wid = STD_OUTPUT_HANDLE
    /\ data \in StreamTexts
    /\ input = encode_utf16(data)

NextStream == ReadStdin(1)

SpecStream == InitStream /\ [][NextStream]_vars

(***************************************************************************)
(* Claims about write                                                      *)
(***************************************************************************)
\* The write just completed took the console branch, its input was valid
\* UTF-8 and its primary native call reported a count.
PartialWriteCase ==
    /\ wr.console
    /\ IsValidUtf8(wr.arg)
    /\ wr.calls # <<>>
    /\ wr.calls[1].res # NativeFailed

\* UTF-8 length of the prefix of the text whose UTF-16 encoding is m units.
PrefixBytes(utf16, m) == Len(Utf16ToString(Take(utf16, m)))

\* K, or K + 1 when index K lies between the two units of a surrogate pair.
FollowUpUnits(utf16, K) ==
    IF K >= 1 /\ K < Len(utf16) /\ IsHighSurrogate(utf16[K])
         /\ IsLowSurrogate(utf16[K + 1])
    THEN K + 1 ELSE K

\* C1: for every valid UTF-8 input of a console write and every native
\* outcome "accepted K of N units", write returns exactly the UTF-8 length
\* of the prefix whose UTF-16 encoding is K units, or K + 1 units when index
\* K falls between the high and the low surrogate of a pair.
C1_PartialWriteByteCount ==
    PartialWriteCase =>
        LET utf16 == encode_utf16(wr.arg)
            K == wr.calls[1].res
        IN  wr.ret = Ok(PrefixBytes(utf16, FollowUpUnits(utf16, K)))

\* C2: for a valid UTF-8 string written to a console by a caller that
\* resumes at data[n..] after each returned count n, no write returns an
\* error (other than a failure of the native call) or panics, and once the
\* console accepted every code unit the counts sum to the string length.
C2_SurrogatePairNeverDropped ==
    (wr.console /\ IsValidUtf8(data)) =>
        /\ wr.ret.kind # "Panic"
        /\ wr.ret.kind = "Err" => wr.calls[1].res = NativeFailed
        /\ screen = encode_utf16(data) => off = Len(data)

\* C3: after any sequence of console writes in which the caller resumes at
\* the returned offset, the sum of the returned counts is the UTF-8 length
\* of exactly the text whose code units the console accepted, and falls on a
\* character boundary of the input.
C3_WriteRelationship ==
    (wr.console /\ wr.ret.kind # "Panic") =>
        /\ off <= Len(data)
        /\ IsCharBoundary(data, off)
        /\ IsValidUtf16(screen)
        /\ Utf16ToString(screen) = Take(data, off)

\* The bytes a write considers (line 119) and their valid prefix (120-129).
ConsideredBytes(arg) == Take(arg, Min(Len(arg), MAX_BUFFER_SIZE \div 2))

\* C9: a console write fails with InvalidData iff the considered bytes are
\* invalid UTF-8 starting at offset 0, and then makes no native call; with a
\* non-empty valid prefix of k bytes it submits the encoding of exactly
\* bytes[..k], never returns InvalidData and never returns more than k.
C9_WriteValidationPolicy ==
    (wr.console /\ wr.ret.kind \in {"Ok", "Err"}) =>
        LET considered == ConsideredBytes(wr.arg)
            k == valid_up_to(considered)
        IN  /\ wr.ret = Err("InvalidData") <=> (considered # <<>> /\ k = 0)
            /\ wr.ret = Err("InvalidData") => wr.calls = <<>>
            /\ k > 0 =>
                /\ wr.calls # <<>>
                /\ wr.calls[1].arg = encode_utf16(Take(considered, k))
                /\ wr.ret # Err("InvalidData")
                /\ wr.ret.kind = "Ok" => wr.ret.n <= k


(***************************************************************************)
(* Claims about read                                                       *)
(***************************************************************************)
Last(seq) == seq[Len(seq)]
Pending(s) == IF s # 0 THEN <<s>> ELSE <<>>
WithoutTrailingHigh(u) ==
    IF u # <<>> /\ IsHighSurrogate(Last(u)) THEN Take(u, Len(u) - 1) ELSE u

\* Read r1 was delivered units ending in a high surrogate, the next read r2
\* was delivered units starting with a low surrogate, and what the two were
\* delivered is well-formed text (up to a high surrogate ending r2).
CarryOverCase(r1, r2) ==
    /\ r1.state = "superseded"
    /\ r1.units # <<>>
    /\ IsHighSurrogate(Last(r1.units))
    /\ r2.state = "returned"
    /\ r2.units # <<>>
    /\ IsLowSurrogate(r2.units[1])
    /\ IsValidUtf16(WithoutTrailingHigh(Pending(r1.taken) \o r1.units \o r2.units))

\* C4: when one read is delivered units ending in an unpaired high
\* surrogate and the next read of the thread is delivered the pairing low
\* surrogate first, neither read fails and the bytes of the two reads
\* together are the UTF-8 encoding of the characters delivered.
C4_SurrogateCarryOver ==
    [][\A t \in Threads :
         (pc[t] = "fixup" /\ pc'[t] = "idle" /\ CarryOverCase(lastRead, lastRead'))
         => /\ lastRead.ret.kind = "Ok"
            /\ lastRead'.ret.kind = "Ok"
            /\ lastRead.bytes \o lastRead'.bytes =
                 Utf16ToString(WithoutTrailingHigh(
                     Pending(lastRead.taken) \o lastRead.units \o lastRead'.units))
      ]_vars

\* A read that took a pending high surrogate was delivered its low
\* surrogate and returned the 4-byte character.
C4_Witness ==
    /\ lastRead.state = "returned"
    /\ lastRead.taken = 55357
    /\ lastRead.units # <<>>
    /\ lastRead.units[1] = 56832
    /\ lastRead.ret.kind = "Ok"
    /\ Take(lastRead.bytes, 4) = <<240, 159, 152, 128>>

\* C5: in every reachable state the slot is Empty (0) or holds one high
\* surrogate (0xD800..0xDBFF): never a low surrogate, a BMP unit or the
\* sentinel.
C5_SlotInvariant == SURROGATE = 0 \/ IsHighSurrogate(SURROGATE)

\* A read that was delivered a low surrogate, a BMP unit or the sentinel
\* before a final high surrogate left that high surrogate pending.
C5_Witness ==
    /\ SURROGATE = 55357
    /\ lastRead.state = "returned"
    /\ Len(lastRead.units) = 2
    /\ lastRead.units[1] \in {56832, 8364, CTRL_Z}

\* A step of a read of thread t respects the order take, native call, set.
SlotStepOfRead(t) ==
    /\ (pc[t] = "idle" /\ pc'[t] = "idle" /\ lastRead' # lastRead
           /\ lastRead'.state = "returned" /\ lastRead'.t = t
           /\ lastRead'.console)
        => lastRead'.len < 4
    /\ (pc[t] = "idle" /\ pc'[t] = "native")
        => (SURROGATE' = 0 /\ rd'[t].taken = SURROGATE /\ rd'[t].call = <<>>)
    /\ (pc[t] = "native" /\ pc'[t] # "native")
        => SURROGATE' = SURROGATE

\* The step of thread t sets the slot to the high surrogate that ends its
\* assembled buffer and leaves that unit out of what it decodes.
SlotSetBy(t) ==
    /\ pc[t] = "fixup"
    /\ pc'[t] = "idle"
    /\ rd[t].call # <<>>
    /\ rd[t].utf16_buf # <<>>
    /\ SURROGATE' = Last(rd[t].utf16_buf)
    /\ IsHighSurrogate(SURROGATE')
    /\ lastRead'.buf = Take(rd[t].utf16_buf, Len(rd[t].utf16_buf) - 1)

SlotStep ==
    /\ \A t \in Threads : SlotStepOfRead(t)
    /\ (SURROGATE' # SURROGATE /\ SURROGATE' # 0) => \E t \in Threads : SlotSetBy(t)
    /\ (wr' # wr /\ wr'.ret.kind # "None") => SURROGATE' = SURROGATE

\* C6: the slot is initially Empty; a console read into at least 4 bytes
\* clears it before its native call, whatever it held; it is set only by the
\* step after the native call returned, only to the last unit of the
\* assembled buffer when that is a high surrogate, which is then left out of
\* what the read decodes; a write never changes it.
C6_SlotLifecycle == (SURROGATE = 0) /\ [][SlotStep]_vars

\* A read took the pending high surrogate (clearing the slot), was delivered
\* another high surrogate and set the slot to it; a write then completed and
\* the slot still holds that unit.
C6_Witness ==
    /\ lastRead.state = "superseded"
    /\ lastRead.taken = 55357
    /\ lastRead.units = <<55357>>
    /\ SURROGATE = 55357
    /\ wr.ret = Ok(1)

\* C7 as stated: a console read into a destination of 3 bytes or fewer
\* always fails with InvalidInput and performs no native read call.
C7_MinimumBufferRejection ==
    (lastRead.state = "returned" /\ lastRead.console /\ lastRead.len <= 3)
        => /\ lastRead.ret = Err("InvalidInput")
           /\ lastRead.calls = <<>>

\* C7 amended: a console read into a destination of 1 to 3 bytes always
\* fails with InvalidInput and performs no native read call.
C7_MinimumBufferRejectionNonEmpty ==
    (lastRead.state = "returned" /\ lastRead.console
        /\ lastRead.len >= 1 /\ lastRead.len <= 3)
        => /\ lastRead.ret = Err("InvalidInput")
           /\ lastRead.calls = <<>>

C7_Witness ==
    /\ lastRead.state = "returned"
    /\ lastRead.console
    /\ lastRead.len = 3
    /\ lastRead.ret = Err("InvalidInput")
    /\ input # <<>>

\* C8: a console read into a zero-length destination returns Ok(0) at once,
\* performs no native read call and leaves the slot as it was.
C8_EmptyBufferRead ==
    [][\A t \in Threads :
         (pc[t] = "idle" /\ lastRead' # lastRead /\ lastRead'.state = "returned"
            /\ lastRead'.t = t /\ lastRead'.console /\ lastRead'.len = 0)
         => /\ lastRead'.ret = Ok(0)
            /\ lastRead'.calls = <<>>
            /\ pc'[t] = "idle"
            /\ input' = input
            /\ SURROGATE' = SURROGATE
      ]_vars

\* A zero-length read returned while a high surrogate was pending.
C8_Witness ==
    /\ lastRead.state = "returned"
    /\ lastRead.console
    /\ lastRead.len = 0
    /\ lastRead.ret = Ok(0)
    /\ SURROGATE = 55357

\* The units decoded before the first unit decode_utf16 rejects.
RECURSIVE DecodedBeforeError(_)
DecodedBeforeError(items) ==
    IF items = <<>> \/ Head(items) = -1 THEN <<>>
    ELSE <<Head(items)>> \o DecodedBeforeError(Tail(items))

\* The read just returned decoded a buffer that is not well-formed UTF-16.
DecodeFailureCase ==
    /\ lastRead.state = "returned"
    /\ lastRead.console
    /\ lastRead.calls # <<>>
    /\ lastRead.calls[1].res # NativeFailed
    /\ ~IsValidUtf16(lastRead.buf)

\* C10 as stated: when the assembled buffer, after the trailing high
\* surrogate was set aside, holds an unpaired surrogate, read fails with
\* InvalidData, reports no byte count, and nothing of the call is written to
\* the caller's destination buffer.
C10_ReadDecodeFailure ==
    DecodeFailureCase =>
        /\ lastRead.ret = Err("InvalidData")
        /\ out[lastRead.t] = FreshBuffer(lastRead.len)

\* C10 amended: in that case read fails with InvalidData and reports no byte
\* count; the destination holds, at its start, the UTF-8 bytes of the
\* characters decoded before the unpaired surrogate and is otherwise as the
\* caller passed it.
C10_ReadDecodeFailurePartialBuffer ==
    DecodeFailureCase =>
        /\ lastRead.ret = Err("InvalidData")
        /\ lastRead.bytes = <<>>
        /\ out[lastRead.t] =
             Place(FreshBuffer(lastRead.len), 0,
                   EncodeUtf8Chars(DecodedBeforeError(decode_utf16(lastRead.buf))))

\* A read failed on a low surrogate that followed a decoded character.
C10_Witness ==
    /\ DecodeFailureCase
    /\ lastRead.buf = <<65, 56832>>
    /\ lastRead.ret = Err("InvalidData")
    /\ out[lastRead.t][1] = 65

(***************************************************************************)
(* Claims about errors of the native calls                                 *)
(***************************************************************************)
\* A native call of the write just completed failed although the write
\* returned a count.
SwallowedFailure(i) ==
    /\ i \in 1..Len(wr.calls)
    /\ wr.calls[i].res = NativeFailed
    /\ wr.ret.kind = "Ok"

\* C11: when the primary native write call fails, write returns that error
\* and makes no further call; when the native read call fails, read returns
\* that error and makes no further call; a native call that failed inside a
\* write that returned a count is the second call, of the one low surrogate.
C11_NativeErrorPropagation ==
    /\ (wr.calls # <<>> /\ wr.calls[1].res = NativeFailed)
        => (wr.ret = Err("last_os_error") /\ Len(wr.calls) = 1)
    /\ \A i \in 1..2 :
         SwallowedFailure(i)
         => /\ i = 2
            /\ wr.calls[i].fn = "WriteConsoleW"
            /\ Len(wr.calls[i].arg) = 1
            /\ IsLowSurrogate(wr.calls[i].arg[1])
    /\ (lastRead.state = "returned" /\ lastRead.calls # <<>>
           /\ lastRead.calls[1].res = NativeFailed)
        => lastRead.ret = Err("last_os_error")
    /\ Len(lastRead.calls) <= 1

\* A console read failed in ReadConsoleW and returned the error; the write
\* after it failed in its primary WriteConsoleW and returned the error.
C11_Witness ==
    /\ lastRead.state = "superseded"
    /\ lastRead.ret = Err("last_os_error")
    /\ wr.console
    /\ wr.calls # <<>>
    /\ wr.calls[1].res = NativeFailed
    /\ wr.ret = Err("last_os_error")

\* The write just completed made the follow-up call of line 154.
FollowUpCase ==
    /\ wr.console
    /\ Len(wr.calls) = 2
    /\ wr.ret.kind = "Ok"

\* C12: when the follow-up write of the low surrogate fails or accepts no
\* unit, `written` stays at the count of the primary call and the returned
\* byte count leaves the low surrogate out; it grows by 1 only when the
\* follow-up accepted the unit.
C12_FailedFollowUpNotCounted ==
    FollowUpCase =>
        LET utf16 == wr.calls[1].arg
            K == wr.calls[1].res
            written == IF wr.calls[2].res = 1 THEN K + 1 ELSE K
        IN  wr.ret.n = CountBytes(Take(utf16, written))

\* The units the count loop of lines 159-165 runs over in the partial write
\* just completed: utf16[..written].
CountedUnits ==
    IF wr.console /\ wr.calls # <<>> /\ wr.calls[1].res # NativeFailed
         /\ wr.calls[1].res < Len(wr.calls[1].arg)
    THEN Take(wr.calls[1].arg, wr.calls[1].res + (Len(wr.calls) - 1))
    ELSE <<>>

\* The cost table as stated: 1 for 0x0000..0x007F, 2 for 0x0080..0x07FF, 1
\* for a low surrogate, 3 for every other unit.
StatedCost(ch) ==
    IF ch <= 127 THEN 1
    ELSE IF ch <= 2047 THEN 2
    ELSE IF IsLowSurrogate(ch) THEN 1
    ELSE 3

\* C13: in the byte count of a partial write every unit is charged by the
\* stated table, and the two costs of every surrogate pair sum to 4.
C13_PerUnitCost ==
    /\ \A i \in 1..Len(CountedUnits) :
         UnitCost(CountedUnits[i]) = StatedCost(CountedUnits[i])
    /\ \A i \in 1..(Len(CountedUnits) - 1) :
         (IsHighSurrogate(CountedUnits[i]) /\ IsLowSurrogate(CountedUnits[i + 1]))
         => UnitCost(CountedUnits[i]) + UnitCost(CountedUnits[i + 1]) = 4

(***************************************************************************)
(* Claims about the buffer limits of write                                 *)
(***************************************************************************)
\* The console write just completed had all its units accepted.
FullyAccepted ==
    /\ wr.console
    /\ wr.calls # <<>>
    /\ wr.calls[1].res = Len(wr.calls[1].arg)
    /\ wr.ret.kind = "Ok"

\* What a fully accepted write returns when it considers the first `cap`
\* bytes: the length of their valid prefix, so the whole length of a valid
\* input of at most `cap` bytes.
ReturnsUnderCap(cap) ==
    FullyAccepted =>
        /\ wr.ret.n = valid_up_to(Take(wr.arg, Min(Len(wr.arg), cap)))
        /\ (IsValidUtf8(wr.arg) /\ Len(wr.arg) <= cap) => wr.ret.n = Len(wr.arg)

\* C14 as stated: a console write considers the first min(len, 8192) bytes;
\* a fully accepted valid input of at most 8192 bytes returns its length.
C14_WriteByteCap == ReturnsUnderCap((MAX_BUFFER_SIZE \div 2) * 2)

\* C14 amended: a console write considers the first min(len, 4096) bytes;
\* a fully accepted valid input of at most 4096 bytes returns its length.
C14_WriteByteCapHalf == ReturnsUnderCap(MAX_BUFFER_SIZE \div 2)

\* A fully accepted write of more than 4096 valid bytes returned 4096, and
\* the caller's next write returned the rest.
C14_Witness ==
    /\ FullyAccepted
    /\ off = Len(data)
    /\ Len(data) > MAX_BUFFER_SIZE \div 2
    /\ Len(wr.arg) < Len(data)

\* C15: the UTF-16 encoding of the validated prefix has at most
\* MAX_BUFFER_SIZE / 2 units and is submitted whole to the native call: no
\* unit is dropped when the fixed buffer is filled.
C15_EncodingFits ==
    (wr.console /\ wr.calls # <<>>) =>
        LET considered == Take(wr.arg, write_len(wr.arg))
            utf16 == encode_utf16(Take(considered, valid_up_to(considered)))
        IN  /\ Len(utf16) <= MAX_BUFFER_SIZE \div 2
            /\ wr.calls[1].arg = utf16

\* A write submitted MAX_BUFFER_SIZE / 2 units: the buffer was full.
C15_Witness ==
    /\ wr.console
    /\ wr.calls # <<>>
    /\ Len(wr.calls[1].arg) = MAX_BUFFER_SIZE \div 2
    /\ Len(wr.arg) > MAX_BUFFER_SIZE \div 2

(***************************************************************************)
(* Claims about handles                                                    *)
(***************************************************************************)
\* The result of a raw primitive that answered res.
RawResult(res) == IF res = NativeFailed THEN Err("last_os_error") ELSE Ok(res)

\* This step is a write, or a read, on a handle that is not a console.
RedirectedWriteStep ==
    wr' # wr /\ wr'.ret.kind # "None" /\ ~wr'.console /\ wr'.calls # <<>>
RedirectedReadStep ==
    /\ lastRead' # lastRead
    /\ lastRead'.state = "returned"
    /\ ~lastRead'.console
    /\ lastRead'.calls # <<>>

\* C16: on a handle that is not a console, write makes one WriteFile call on
\* the caller's whole bytes and returns its result, read makes one ReadFile
\* call on the caller's whole buffer and returns its result and bytes, and
\* neither touches the pending-surrogate slot.
C16_RedirectedPassThrough ==
    [][/\ RedirectedWriteStep
          => /\ Len(wr'.calls) = 1
             /\ wr'.calls[1].fn = "WriteFile"
             /\ wr'.calls[1].arg = wr'.arg
             /\ wr'.ret = RawResult(wr'.calls[1].res)
             /\ SURROGATE' = SURROGATE
       /\ RedirectedReadStep
          => /\ Len(lastRead'.calls) = 1
             /\ lastRead'.calls[1].fn = "ReadFile"
             /\ Len(lastRead'.calls[1].arg) = lastRead'.len
             /\ lastRead'.ret = RawResult(lastRead'.calls[1].res)
             /\ lastRead'.bytes = Take(PipeBytes(lastRead'.len), lastRead'.ret.n)
             /\ lastRead'.taken = 0
             /\ SURROGATE' = SURROGATE
      ]_vars

\* While a high surrogate was pending, a write to a pipe of more than
\* MAX_BUFFER_SIZE bytes of invalid UTF-8 returned their whole length.
C16_Witness ==
    /\ SURROGATE = 55357
    /\ ~wr.console
    /\ Len(wr.arg) > MAX_BUFFER_SIZE
    /\ ~IsValidUtf8(wr.arg)
    /\ wr.ret = Ok(Len(wr.arg))

\* What GetStdHandle and GetConsoleMode answer for stream id in this state.
HandleNow(id) == stdHandle[id]
UsableNow(id) == HandleNow(id) \notin {INVALID_HANDLE_VALUE, NULL_HANDLE}
ConsoleNow(id) == HandleNow(id) \in consoles

\* A write resolves its stream in the state it is called in.
WriteResolvesNow ==
    (wr' # wr /\ wr'.ret.kind # "None")
    => IF ~UsableNow(wid) THEN wr'.calls = <<>> /\ wr'.ret.kind = "Err"
       ELSE /\ wr'.calls # <<>>
            /\ wr'.calls[1].handle = HandleNow(wid)
            /\ (wr'.calls[1].fn = "WriteConsoleW") = ConsoleNow(wid)
            /\ (wr'.calls[1].fn = "WriteFile") = ~ConsoleNow(wid)

\* A read of thread t resolves its stream in the state it is called in, and
\* uses that handle for the native call of the same read.
ReadResolvesNow(t) ==
    /\ (pc[t] = "idle" /\ pc'[t] = "native")
        => /\ UsableNow(rd'[t].id)
           /\ ConsoleNow(rd'[t].id)
           /\ rd'[t].handle = HandleNow(rd'[t].id)
    /\ (pc[t] = "idle" /\ lastRead' # lastRead /\ lastRead'.state = "returned"
           /\ lastRead'.t = t)
        => IF ~UsableNow(lastRead'.id)
               THEN lastRead'.calls = <<>> /\ lastRead'.ret.kind = "Err"
           ELSE IF ConsoleNow(lastRead'.id)
               THEN lastRead'.calls = <<>> /\ lastRead'.console
                    /\ lastRead'.len < 4
           ELSE /\ lastRead'.calls # <<>>
                /\ lastRead'.calls[1].fn = "ReadFile"
                /\ lastRead'.calls[1].handle = HandleNow(lastRead'.id)
    /\ (pc[t] = "native" /\ pc'[t] = "fixup")
        => (rd'[t].call[1].handle = rd[t].handle /\ rd'[t].handle = rd[t].handle)
    /\ (pc[t] = "native" /\ pc'[t] = "idle")
        => lastRead'.calls[1].handle = rd[t].handle
    /\ pc'[t] = "idle" => rd'[t] = NoLocals

\* C17: every read and every write resolves the handle of its stream and
\* whether it is a console when the call starts, from what the host answers
\* then, and keeps neither after the call returns.
C17_FreshResolution ==
    [][WriteResolvesNow /\ \A t \in Threads : ReadResolvesNow(t)]_vars

\* The output stream started as console 2; after the host reassigned it, a
\* write to it went to the pipe through WriteFile.
C17_Witness ==
    /\ wr.id = STD_OUTPUT_HANDLE
    /\ wr.calls # <<>>
    /\ wr.calls[1].fn = "WriteFile"
    /\ wr.calls[1].handle = 3
    /\ wr.ret = Ok(1)

(***************************************************************************)
(* Claims about a round trip through the console                           *)
(***************************************************************************)
\* A fully accepted console write of the text returns its length and puts
\* its bytes, as units, on the console.
WriteEchoes ==
    (wr' # wr /\ wr'.console /\ wr'.ret.kind = "Ok")
    => /\ wr'.ret.n = Len(wr'.arg)
       /\ screen' = screen \o wr'.arg

\* A console read of thread t assembles exactly the units the console
\* delivered to it, in order, and returns them as its bytes.
ReadEchoes(t) ==
    /\ (pc[t] = "native" /\ pc'[t] = "fixup")
        => rd'[t].utf16_buf =
               rd[t].utf16_buf \o Take(input, Len(input) - Len(input'))
    /\ (pc[t] = "fixup" /\ pc'[t] = "idle")
        => /\ lastRead'.ret = Ok(Len(rd[t].utf16_buf))
           /\ lastRead'.bytes = rd[t].utf16_buf

RoundTripStep == WriteEchoes /\ \A t \in Threads : ReadEchoes(t)

\* C18 as stated: for every ASCII-only text, the write count is the input
\* length, the console receives the bytes as units, and every read returns
\* exactly the units delivered to it: what is read back is what was written.
C18_AsciiRoundTrip == [][RoundTripStep]_vars

\* C18 amended: the same for every ASCII-only text without Ctrl-Z (0x1A)
\* and of at most MAX_BUFFER_SIZE / 2 bytes, with no surrogate pending.
C18_AsciiRoundTripNoCtrlZ ==
    [][(/\ \A i \in 1..Len(data) : data[i] # CTRL_Z
        /\ Len(data) <= MAX_BUFFER_SIZE \div 2
        /\ SURROGATE = 0)
       => RoundTripStep]_vars

\* The text of MaxChars bytes was written, echoed and read back to its last
\* byte by more than one read.
C18_Witness ==
    /\ Len(data) > 2
    /\ \A i \in 1..Len(data) : data[i] # CTRL_Z
    /\ off = Len(data)
    /\ screen = <<>>
    /\ input = <<>>
    /\ lastRead.state = "returned"
    /\ lastRead.ret.kind = "Ok"
    /\ lastRead.bytes # <<>>
    /\ lastRead.bytes # data
    /\ lastRead.bytes = Drop(data, Len(data) - Len(lastRead.bytes))

(***************************************************************************)
(* Claims about concurrent reads                                           *)
(***************************************************************************)
Count(v, seq) == Cardinality({i \in 1..Len(seq) : seq[i] = v})

\* Where the high surrogate v of the input is: still in the console, in the
\* slot, or in the buffer of a read in progress.
Holders(v) ==
    Count(v, input) + (IF SURROGATE = v THEN 1 ELSE 0)
        + Count(v, rd[1].utf16_buf) + Count(v, rd[2].utf16_buf)

\* C19: under every interleaving of two concurrent console reads, a pending
\* unit is obtained by at most one read (each high surrogate of the input is
\* in at most one place), and what a read took from the slot is nothing or
\* a whole high surrogate.
C19_AtomicTakeAndSet ==
    /\ \A c \in SharedChars \ {65} : Holders(EncodeCharUtf16(c)[1]) <= 1
    /\ \A t \in Threads : rd[t].taken = 0 \/ IsHighSurrogate(rd[t].taken)
    /\ (rd[1].taken # 0 /\ rd[2].taken # 0) => rd[1].taken # rd[2].taken

\* A read left D83D pending; both threads are now inside a read, thread 1
\* took the unit and thread 2 took nothing.
C19_Witness ==
    /\ lastRead.state = "superseded"
    /\ lastRead.units = <<55357>>
    /\ pc[1] = "native"
    /\ rd[1].taken = 55357
    /\ pc[2] = "native"
    /\ rd[2].taken = 0
    /\ SURROGATE = 0

\* Thread u was delivered a low surrogate first while thread t, inside a
\* read, holds the unit it took from the slot.
SplitAcrossThreads(t, u) ==
    /\ t # u
    /\ pc[t] \in {"native", "fixup"}
    /\ rd[t].taken # 0
    /\ pc[u] = "fixup"
    /\ rd[u].taken = 0
    /\ rd[u].utf16_buf # <<>>
    /\ IsLowSurrogate(rd[u].utf16_buf[1])

\* C20: two threads reading one console stream can interleave so that the
\* high surrogate one read stored is taken by a read that is not delivered
\* the low surrogate; the read that is delivered it then fails with
\* InvalidData and returns no byte, although the input was well-formed.
C20_ConcurrentReadsInterleave ==
    [][\A t, u \in Threads :
         (SplitAcrossThreads(t, u) /\ pc'[u] = "idle")
         => /\ lastRead'.t = u
            /\ lastRead'.ret = Err("InvalidData")
            /\ lastRead'.bytes = <<>>
      ]_vars

\* All of the well-formed input was delivered: thread 2 failed on DE00 while
\* thread 1, inside its read, held D83D, so U+1F600 is returned by no read.
C20_Witness ==
    /\ lastRead.state = "returned"
    /\ lastRead.t = 2
    /\ lastRead.units = <<56832>>
    /\ lastRead.ret = Err("InvalidData")
    /\ pc[1] = "native"
    /\ rd[1].taken = 55357
    /\ input = <<>>

(***************************************************************************)
(* Claims about the process-wide slot                                      *)
(***************************************************************************)
\* Thread t passes the swap of line 236 in this step.
TakesSlot(t) == pc[t] = "idle" /\ pc'[t] = "native"

\* Thread t passes lines 249-257 in this step.
FinishesRead(t) == pc[t] = "fixup" /\ pc'[t] = "idle"

\* C21: there is one pending-surrogate slot for every stream identity and
\* handle.  Whatever the identity and the handle of a console read that
\* reaches the swap, it takes the unit the slot holds, leaves the slot empty
\* and places a taken unit at index 0 of its UTF-16 buffer; a step that is
\* neither that swap nor the end of a read (a reassignment of the standard
\* handles, a read that returns before the swap) leaves the slot as it was.
C21_SingleProcessWideSlot ==
    [][ /\ \A t \in Threads :
             TakesSlot(t) =>
                 /\ rd'[t].taken = SURROGATE
                 /\ SURROGATE' = 0
                 /\ SURROGATE # 0 =>
                        /\ rd'[t].start = 1
                        /\ rd'[t].utf16_buf = <<SURROGATE>>
        /\ (\A t \in Threads : ~TakesSlot(t) /\ ~FinishesRead(t)) =>
               SURROGATE' = SURROGATE ]_vars

\* Thread 1, which reads the standard input only, decoded the one A of the
\* input in the last returned console read, which was delivered A and D83D and
\* left D83D pending; the standard input was a console only before the
\* reassignment and the standard error is one only after it; thread 2, reading
\* the standard error, took D83D and placed it at index 0.
C21_Witness ==
    /\ pc[1] = "idle"
    /\ Len(out[1]) >= 4
    /\ out[1][1] = 65
    /\ lastRead.state = "superseded"
    /\ lastRead.units = <<65, 55357>>
    /\ ~ResolvesToConsole(STD_INPUT_HANDLE)
    /\ pc[2] = "native"
    /\ rd[2].id = STD_ERROR_HANDLE
    /\ rd[2].handle = 1
    /\ rd[2].taken = 55357
    /\ rd[2].utf16_buf = <<55357>>
    /\ SURROGATE = 0

(***************************************************************************)
(* Further claims about write                                              *)
(***************************************************************************)
\* The text the write just completed submitted: the valid prefix of the
\* bytes it considered (lines 119-129).
SubmittedText ==
    Take(ConsideredBytes(wr.arg), valid_up_to(ConsideredBytes(wr.arg)))

\* The write just completed took the console branch and its primary native
\* call accepted fewer units than submitted.
AcceptedFewer ==
    /\ wr.console
    /\ wr.calls # <<>>
    /\ wr.calls[1].res # NativeFailed
    /\ wr.calls[1].res < Len(wr.calls[1].arg)

\* C22: on every partial write, after the follow-up step, utf16[..written]
\* is well-formed UTF-16 and decodes to exactly utf8[..count], where count is
\* the computed byte count and a character boundary of utf8: the assertion of
\* line 167 holds, so no write ends in its panic.
C22_DebugAssertionHolds ==
    AcceptedFewer =>
        LET utf16 == wr.calls[1].arg
            written == wr.calls[1].res + (Len(wr.calls) - 1)
            count == CountBytes(Take(utf16, written))
        IN  /\ IsValidUtf16(Take(utf16, written))
            /\ count <= Len(SubmittedText)
            /\ IsCharBoundary(SubmittedText, count)
            /\ Utf16ToString(Take(utf16, written)) = Take(SubmittedText, count)
            /\ wr.ret = Ok(count)

\* C23: whenever the primary native call of a write stops at an index whose
\* unit is a low surrogate (0xDC00..0xDFFF), write makes exactly one further
\* native write, of that single unit, before it returns; when the unit at
\* that index is not a low surrogate it makes no further native write; so a
\* write makes at most two native calls.
C23_MidPairSplitFollowUp ==
    /\ Len(wr.calls) <= 2
    /\ AcceptedFewer =>
           LET utf16 == wr.calls[1].arg
               next == utf16[wr.calls[1].res + 1]
           IN  IF IsLowSurrogate(next)
                   THEN /\ Len(wr.calls) = 2
                        /\ wr.calls[2].fn = "WriteConsoleW"
                        /\ wr.calls[2].handle = wr.calls[1].handle
                        /\ wr.calls[2].arg = <<next>>
               ELSE Len(wr.calls) = 1

(***************************************************************************)
(* Further claims about read                                               *)
(***************************************************************************)
\* The length of utf16_buf (line 213).
Utf16BufLen == MAX_BUFFER_SIZE \div 2

\* Thread t is between the swap of line 236 and its return.
InFlight(t) == pc[t] \in {"native", "fixup"}

\* C24: for every destination of at least 4 bytes, every slot state and
\* every sequence of units the console delivers within the requested count,
\* a successful read reports at most out.len() bytes and no write into the
\* destination or into utf16_buf is out of bounds: encode_utf8 never runs out
\* of room, the pending unit goes to index 0, and the slice buf[start..amount]
\* handed to read_u16s lies within utf16_buf, also when amount was raised from
\* 1 to 2 for a destination of 4 or 5 bytes.
C24_ReadOutputFits ==
    /\ lastRead.ret.kind # "Panic"
    /\ (lastRead.state = "returned" /\ lastRead.console
          /\ lastRead.ret.kind = "Ok") =>
            /\ lastRead.ret.n <= lastRead.len
            /\ Len(lastRead.bytes) = lastRead.ret.n
    /\ \A t \in Threads :
          InFlight(t) =>
            /\ rd[t].start <= rd[t].amount
            /\ rd[t].amount <= Utf16BufLen
            /\ Len(rd[t].utf16_buf) <= rd[t].amount
            /\ Len(out[t]) = rd[t].len

\* A read into 4 bytes found D83D pending, had its amount raised to 2, was
\* delivered DE00 and filled the destination with the 4 bytes of U+1F600.
C24_Witness ==
    /\ lastRead.state = "returned"
    /\ lastRead.len = 4
    /\ lastRead.taken = 55357
    /\ lastRead.buf = <<55357, 56832>>
    /\ lastRead.ret = Ok(4)
    /\ lastRead.bytes = EncodeCharUtf8(128512)

\* C25: every console read with a destination of at least 4 bytes asks
\* ReadConsoleW for n = amount - start new units with 1 <= n <= the length of
\* utf16_buf; when a unit is pending and out.len() / 3 = 1, amount is raised
\* to 2, so that one new unit is asked for and not zero.
C25_ReadForwardProgress ==
    /\ \A t \in Threads :
          InFlight(t) =>
            LET n == rd[t].amount - rd[t].start
            IN  /\ rd[t].len >= 4
                /\ n >= 1
                /\ n <= Utf16BufLen
                /\ (rd[t].taken # 0 /\ rd[t].len \div 3 = 1) =>
                       (rd[t].amount = 2 /\ n = 1)
    /\ (lastRead.state = "returned" /\ lastRead.console
          /\ lastRead.calls # <<>>) =>
            /\ Len(lastRead.calls) = 1
            /\ Len(lastRead.calls[1].arg) >= 1
            /\ Len(lastRead.calls[1].arg) <= Utf16BufLen

\* A read into 5 bytes took D83D from the slot and asked ReadConsoleW for
\* one unit.
C25_Witness ==
    /\ lastRead.state = "returned"
    /\ lastRead.len = 5
    /\ lastRead.taken = 55357
    /\ Len(lastRead.calls) = 1
    /\ Len(lastRead.calls[1].arg) = 1
    /\ lastRead.calls[1].res = 1

\* Thread 1 passes the ReadConsoleW call of line 280 in this step, with
\* success; the units the console placed are those that left its input.
NativeReadStep == pc[1] = "native" /\ pc'[1] = "fixup"
PlacedUnits == Take(input, Len(input) - Len(input'))

\* C26: read_u16s removes exactly one unit when, and only when, the last
\* unit ReadConsoleW placed is 0x1A; a 0x1A that is not the last unit placed
\* is kept and decoded as the byte 0x1A; the test for a trailing high
\* surrogate looks at the units left after the trimming; and a read that
\* found the slot empty and was delivered nothing but the sentinel returns
\* Ok(0).
C26_EndOfStreamSentinel ==
    [][ /\ NativeReadStep =>
             LET raw == PlacedUnits
                 kept == Drop(rd'[1].utf16_buf, rd[1].start)
             IN  /\ rd'[1].call[1].res = Len(raw)
                 /\ (raw # <<>> /\ Last(raw) = CTRL_Z) =>
                        kept = Take(raw, Len(raw) - 1)
                 /\ ~(raw # <<>> /\ Last(raw) = CTRL_Z) => kept = raw
        /\ FinishesRead(1) =>
             LET r == lastRead'
                 all == Pending(r.taken) \o r.units
             IN  /\ (all # <<>> /\ IsHighSurrogate(Last(all))) =>
                        /\ SURROGATE' = Last(all)
                        /\ r.buf = Take(all, Len(all) - 1)
                 /\ ~(all # <<>> /\ IsHighSurrogate(Last(all))) =>
                        /\ SURROGATE' = 0
                        /\ r.buf = all
                 /\ r.ret.kind = "Ok" =>
                        /\ r.bytes = Utf16ToString(r.buf)
                        /\ Count(CTRL_Z, r.bytes) = Count(CTRL_Z, r.buf)
                 /\ (r.taken = 0 /\ r.units = <<>>) => r.ret = Ok(0) ]_vars

\* A read was delivered two sentinels: the second was trimmed, the first
\* was kept and decoded as the byte 0x1A.
C26_Witness ==
    /\ lastRead.state = "returned"
    /\ lastRead.taken = 0
    /\ lastRead.calls # <<>>
    /\ lastRead.calls[1].res = 2
    /\ lastRead.units = <<CTRL_Z>>
    /\ lastRead.ret = Ok(1)
    /\ lastRead.bytes = <<CTRL_Z>>

\* C27: for data whose first invalid UTF-8 byte is at offset k > 0, a caller
\* that resumes at the returned offset has the k valid bytes accepted in
\* order and exactly once under any schedule of partial acceptance by the
\* console: the console holds the units of exactly the bytes before the
\* caller's offset, the offset never passes k, and InvalidData is returned
\* only by the call whose data begins at offset k.
C27_InvalidByteReportedAtItsOffset ==
    LET k == valid_up_to(data)
    IN  (wr.console /\ k > 0 /\ k < Len(data)) =>
            /\ off <= k
            /\ IsCharBoundary(Take(data, k), off)
            /\ screen = encode_utf16(Take(data, off))
            /\ wr.ret = Err("InvalidData") =>
                   (off = k /\ wr.arg = Drop(data, k))

\* The console's whole stream and the number of its units delivered so far.
Stream == encode_utf16(data)
Delivered == Len(Stream) - Len(input)
DeliveredNext == Len(Stream) - Len(input')

\* 1 when the slot holds a unit, 0 when it is empty.
Held(slot) == IF slot # 0 THEN 1 ELSE 0

\* C28: in a single-threaded sequence of console reads over a well-formed
\* UTF-16 stream delivered in arbitrary chunks, every successful read returns
\* the UTF-8 encoding of the stretch of the stream from the unit the slot
\* held when the read began (the end of what the reads before it returned)
\* to the last unit delivered, less a trailing sentinel and less the one high
\* surrogate it leaves in the slot; so the bytes returned so far are the
\* encoding of all units delivered so far, sentinels excluded, minus at most
\* the unit in the slot.  The returned count is the number of bytes placed at
\* the start of the destination, and those bytes are valid UTF-8.  A read
\* fails with InvalidData only on the low surrogate whose high surrogate a
\* failed read dropped.
C28_NoUnitLostOrDuplicated ==
    [][ /\ TakesSlot(1) => rd'[1].taken = SURROGATE
        /\ (~TakesSlot(1) /\ ~FinishesRead(1)) => SURROGATE' = SURROGATE
        /\ NativeReadStep => rd'[1].call[1].res = DeliveredNext - Delivered
        /\ FinishesRead(1) =>
             LET r == lastRead'
                 res == rd[1].call[1].res
                 from == Delivered - res - Held(rd[1].taken)
                 trimmed == IF res > 0 /\ Stream[Delivered] = CTRL_Z
                            THEN 1 ELSE 0
                 to == Delivered - trimmed - Held(SURROGATE')
             IN  /\ rd[1].taken # 0 => Stream[from + 1] = rd[1].taken
                 /\ r.ret.kind = "Ok" =>
                        /\ r.bytes = Utf16ToString(SubSeq(Stream, from + 1, to))
                        /\ r.ret.n = Len(r.bytes)
                        /\ r.bytes = Take(out'[1], r.ret.n)
                        /\ IsValidUtf8(r.bytes)
                 /\ r.ret.kind = "Err" =>
                        /\ rd[1].taken = 0
                        /\ res > 0
                        /\ IsLowSurrogate(Stream[from + 1]) ]_vars

\* Of the stream A, D83D, DE00 a first read was delivered A and D83D and
\* returned the byte of A; the next read, into 4 bytes, took D83D, was
\* delivered DE00 and returned the 4 bytes of U+1F600.
C28_Witness ==
    /\ data = <<65>> \o EncodeCharUtf8(128512)
    /\ input = <<>>
    /\ lastRead.state = "returned"
    /\ lastRead.len = 4
    /\ lastRead.taken = 55357
    /\ lastRead.units = <<56832>>
    /\ lastRead.ret = Ok(4)
    /\ lastRead.bytes = EncodeCharUtf8(128512)
    /\ SURROGATE = 0

\* The last console read took a pending unit and its ReadConsoleW call
\* failed.
FailedWithPending ==
    /\ lastRead.console
    /\ lastRead.taken # 0
    /\ lastRead.ret = Err("last_os_error")

\* C29: a read that starts with a high surrogate pending and whose native
\* read call fails returns the native error and leaves the slot empty: the
\* unit it took is not put back, and the next read starts without it.
C29_FailedReadDropsPending ==
    /\ (lastRead.state = "returned" /\ lastRead.console /\ lastRead.taken # 0
          /\ lastRead.calls # <<>> /\ lastRead.calls[1].res = NativeFailed) =>
            /\ lastRead.ret = Err("last_os_error")
            /\ lastRead.bytes = <<>>
            /\ SURROGATE = 0
    /\ (lastRead.state = "superseded" /\ FailedWithPending /\ InFlight(1)) =>
            /\ rd[1].taken = 0
            /\ rd[1].start = 0
            /\ (pc[1] = "native" => rd[1].utf16_buf = <<>>)

\* A read took D83D from the slot and its native call failed; the next read
\* found the slot empty and was delivered the low surrogate DE00 alone.
C29_Witness ==
    /\ lastRead.state = "superseded"
    /\ FailedWithPending
    /\ lastRead.taken = 55357
    /\ pc[1] = "fixup"
    /\ rd[1].taken = 0
    /\ rd[1].utf16_buf = <<56832>>
    /\ SURROGATE = 0

\* The last console read took a pending unit and its ReadConsoleW call
\* left it no unit: the console delivered nothing, or the sentinel alone.
ZeroUnitsWithPending ==
    /\ lastRead.console
    /\ lastRead.taken # 0
    /\ lastRead.units = <<>>
    /\ lastRead.ret.kind = "Ok"

\* C30: a read that starts with the high surrogate s pending and is
\* delivered zero units (nothing, or only the sentinel) returns Ok(0) and
\* leaves s in the slot again, so that the next read takes s and pairs it
\* with the low surrogate delivered to it.
C30_ZeroUnitReadKeepsPending ==
    /\ (lastRead.state = "returned" /\ lastRead.console /\ lastRead.taken # 0
          /\ lastRead.calls # <<>> /\ lastRead.calls[1].res # NativeFailed
          /\ lastRead.units = <<>>) =>
            /\ lastRead.ret = Ok(0)
            /\ lastRead.bytes = <<>>
            /\ SURROGATE = lastRead.taken
    /\ (lastRead.state = "superseded" /\ ZeroUnitsWithPending
          /\ InFlight(1)) =>
            /\ lastRead.ret = Ok(0)
            /\ rd[1].taken = lastRead.taken
            /\ rd[1].utf16_buf # <<>>
            /\ rd[1].utf16_buf[1] = lastRead.taken

\* A read took D83D and was delivered no unit; the next read took D83D
\* again and was delivered DE00, which completes the pair.
C30_Witness ==
    /\ lastRead.state = "superseded"
    /\ ZeroUnitsWithPending
    /\ lastRead.taken = 55357
    /\ lastRead.ret = Ok(0)
    /\ pc[1] = "fixup"
    /\ rd[1].taken = 55357
    /\ rd[1].utf16_buf = <<55357, 56832>>

====
